---- MODULE Spec2Model ----
(***************************************************************************)
(* A model of elf_packer.py: the ELF32 header and section-table parsers,   *)
(* the string-table resolver, the section lookup, the in-place XOR         *)
(* encoder, the code-cave finder, the entry-point patcher, the stub        *)
(* injector, the __main__ pipeline and the decoder stub's instructions.    *)
(*                                                                         *)
(* The byte buffer is a sequence of integers 0..255; the Python index i is *)
(* the TLA+ index i + 1.  A Python exception is an outcome "ok = FALSE".   *)
(***************************************************************************)
EXTENDS Integers, Sequences, FiniteSets, TLC

\* ---------------------------------------------------------------- bounds
NumSecs == 2
SecLen == 2
MaxStubLen == 2

\* ------------------------------------------------------ program constants
EI_NIDENT == 16
ELF32_EHDR_SZ == 36 + EI_NIDENT
SHDR_SZ == 40
SHT_PROGBITS == 1
SHT_STRTAB == 3
SHT_NOBITS == 8
EP_OFF == 24
PACK_KEY == 165
ETYPE_KEYS == 0 .. 4
ELF_MAGIC == <<127, 69, 76, 70>>
TEXT_NAME == <<46, 116, 101, 120, 116>>

\* ------------------------------------------------------------ byte helpers
Min(a, b) == IF a < b THEN a ELSE b

At(d, i) == d[i + 1]

\* d[a:b] for 0 <= a, 0 <= b
Slice(d, a, b) == SubSeq(d, a + 1, Min(b, Len(d)))

\* d[a:b] = v
SliceAssign(d, a, b, v) ==
    LET lo == Min(a, Len(d))
        hi == IF Min(b, Len(d)) < lo THEN lo ELSE Min(b, Len(d))
    IN  SubSeq(d, 1, lo) \o v \o SubSeq(d, hi + 1, Len(d))

RECURSIVE XorBits(_, _, _)
XorBits(a, b, n) ==
    IF n = 0 THEN 0
    ELSE ((a + b) % 2) + 2 * XorBits(a \div 2, b \div 2, n - 1)

\* a ^ b on two bytes
Xor8(a, b) == XorBits(a, b, 8)

\* struct 'H' and 'I' fields, little-endian
U16(d, o) == At(d, o) + 256 * At(d, o + 1)
U32(d, o) == At(d, o) + 256 * At(d, o + 1) + 65536 * At(d, o + 2)
             + 16777216 * At(d, o + 3)

\* pwn p32
p32(v) == << v % 256, (v \div 256) % 256, (v \div 65536) % 256,
             (v \div 16777216) % 256 >>

\* ------------------------------------------------------------ parse_header
NoHdr ==
    [ok |-> FALSE, e_ident |-> <<>>, e_type |-> 0, e_machine |-> 0,
     e_version |-> 0, e_entry |-> 0, e_phoff |-> 0, e_shoff |-> 0,
     e_flags |-> 0, e_ehsize |-> 0, e_phentsize |-> 0, e_phnum |-> 0,
     e_shentsize |-> 0, e_shnum |-> 0, e_shstrndx |-> 0]

\* unpack("16sHHIIIIIHHHHHH", data[:52]); the debug line indexes ETYPE_DIC
parse_header(d) ==
    LET raw == Slice(d, 0, ELF32_EHDR_SZ)
    IN  IF Len(raw) # ELF32_EHDR_SZ THEN NoHdr
        ELSE [ok |-> U16(raw, EI_NIDENT) \in ETYPE_KEYS,
              e_ident |-> Slice(raw, 0, EI_NIDENT),
              e_type |-> U16(raw, EI_NIDENT),
              e_machine |-> U16(raw, EI_NIDENT + 2),
              e_version |-> U32(raw, EI_NIDENT + 4),
              e_entry |-> U32(raw, EI_NIDENT + 8),
              e_phoff |-> U32(raw, EI_NIDENT + 12),
              e_shoff |-> U32(raw, EI_NIDENT + 16),
              e_flags |-> U32(raw, EI_NIDENT + 20),
              e_ehsize |-> U16(raw, EI_NIDENT + 24),
              e_phentsize |-> U16(raw, EI_NIDENT + 26),
              e_phnum |-> U16(raw, EI_NIDENT + 28),
              e_shentsize |-> U16(raw, EI_NIDENT + 30),
              e_shnum |-> U16(raw, EI_NIDENT + 32),
              e_shstrndx |-> U16(raw, EI_NIDENT + 34)]

\* ------------------------------------------------------------------ Section
\* Section(...) built from unpack('IIIIIIIIII', entry); name is set later
Section(ent) ==
    [sh_name |-> U32(ent, 0), sh_type |-> U32(ent, 4), sh_flags |-> U32(ent, 8),
     sh_addr |-> U32(ent, 12), sh_offset |-> U32(ent, 16),
     sh_size |-> U32(ent, 20), sh_link |-> U32(ent, 24),
     sh_info |-> U32(ent, 28), sh_addralign |-> U32(ent, 32),
     sh_entsize |-> U32(ent, 36), name |-> <<>>]

NullSec ==
    [sh_name |-> 0, sh_type |-> 0, sh_flags |-> 0, sh_addr |-> 0,
     sh_offset |-> 0, sh_size |-> 0, sh_link |-> 0, sh_info |-> 0,
     sh_addralign |-> 0, sh_entsize |-> 0, name |-> <<>>]

\* self.sections: a dict keyed by sh_type, kept in insertion order, as a
\* sequence of [key, secs] entries
DictHas(dict, k) == \E g \in 1 .. Len(dict) : dict[g].key = k

\* every section in a group of its own, keeping the table's order
DictAppendFlat(dict, k, sec) == Append(dict, [key |-> k, secs |-> <<sec>>])

DictAppend(dict, k, sec) ==
    IF DictHas(dict, k)
    THEN [g \in 1 .. Len(dict) |->
            IF dict[g].key = k
            THEN [key |-> k, secs |-> Append(dict[g].secs, sec)]
            ELSE dict[g]]
    ELSE Append(dict, [key |-> k, secs |-> <<sec>>])

\* the order of "for sec_type in sections.keys(): for sec in sections.get()"
RECURSIVE IterOrder(_)
IterOrder(dict) ==
    IF dict = <<>> THEN <<>>
    ELSE Head(dict).secs \o IterOrder(Tail(dict))

\* --------------------------------------------------------------- get_string
RECURSIVE ReadString(_, _, _, _)
ReadString(d, sto, index, elf_str) ==
    IF sto + index >= Len(d) THEN [ok |-> FALSE, str |-> elf_str]
    ELSE IF At(d, sto + index) = 0 THEN [ok |-> TRUE, str |-> elf_str]
    ELSE ReadString(d, sto, index + 1, Append(elf_str, At(d, sto + index)))

\* sto < 0 stands for the attribute string_table_offset never assigned
get_string(d, sto, index) ==
    IF sto < 0 THEN [ok |-> FALSE, str |-> <<>>]
    ELSE ReadString(d, sto, index, <<>>)

\* ---------------------------------------------------- parse_sections_header
RECURSIVE ParseEntries(_, _, _, _, _)
ParseEntries(d, h, sec_index, dict, sto) ==
    IF sec_index >= h.e_shnum
    THEN [ok |-> TRUE, sections |-> dict, sto |-> sto]
    ELSE
      LET section_header_sz == h.e_shnum * h.e_shentsize
          section_table == Slice(d, h.e_shoff, h.e_shoff + section_header_sz)
          ent == Slice(section_table, sec_index * h.e_shentsize,
                       sec_index * h.e_shentsize + h.e_shentsize)
      IN  IF Len(ent) # SHDR_SZ
          THEN [ok |-> FALSE, sections |-> dict, sto |-> sto]
          ELSE LET sec == Section(ent)
               IN  ParseEntries(d, h, sec_index + 1,
                                DictAppend(dict, sec.sh_type, sec),
                                IF sec_index = h.e_shstrndx
                                THEN sec.sh_offset ELSE sto)

NameSecs(d, sto, secs) ==
    [i \in 1 .. Len(secs) |->
        [secs[i] EXCEPT !.name = get_string(d, sto, secs[i].sh_name).str]]

NamesOk(d, sto, dict) ==
    \A i \in 1 .. Len(IterOrder(dict)) :
        get_string(d, sto, IterOrder(dict)[i].sh_name).ok

parse_sections_header(d, h) ==
    LET p == ParseEntries(d, h, 1, <<>>, -1)
    IN  IF ~p.ok THEN p
        ELSE [ok |-> NamesOk(d, p.sto, p.sections),
              sections |-> [g \in 1 .. Len(p.sections) |->
                              [key |-> p.sections[g].key,
                               secs |-> NameSecs(d, p.sto, p.sections[g].secs)]],
              sto |-> p.sto]

\* -------------------------------------------------------------- get_section
RECURSIVE FirstNamed(_, _)
FirstNamed(secs, name) ==
    IF secs = <<>> THEN [none |-> TRUE, sec |-> NullSec]
    ELSE IF Head(secs).name = name THEN [none |-> FALSE, sec |-> Head(secs)]
    ELSE FirstNamed(Tail(secs), name)

\* none = TRUE is the implicit "return None" at the end of the loops
get_section(dict, name) == FirstNamed(IterOrder(dict), name)

\* ---------------------------------------------------------------- pack_code
\* the transform as an addition modulo 256
AddByte(b, key) == (b + key) % 256

\* data[...] ^= key
XorByte(b, key) == Xor8(b, key)

RECURSIVE PackLoop(_, _, _, _)
PackLoop(d, text_sec, key, i) ==
    IF i >= text_sec.sh_size THEN [ok |-> TRUE, data |-> d]
    ELSE IF text_sec.sh_offset + i >= Len(d) THEN [ok |-> FALSE, data |-> d]
    ELSE PackLoop([d EXCEPT ![text_sec.sh_offset + i + 1] =
                       XorByte(d[text_sec.sh_offset + i + 1], key)],
                  text_sec, key, i + 1)

pack_code(d, dict, key) ==
    LET text_sec == get_section(dict, TEXT_NAME)
    IN  IF text_sec.none THEN [ok |-> FALSE, data |-> d]
        ELSE PackLoop(d, text_sec.sec, key, 0)

\* ---------------------------------------------------------------- find_cave
\* sec.sh_type == SectionType.SHT_NOBITS compares an int with a member of a
\* plain Enum, which is False for every int
IsNoBits(sh_type) == FALSE

\* the scan stopping one byte short of the section's end
ScanMoreShort(index, sec) == index < sec.sh_size - 1

\* while (index < sec.sh_size)
ScanMore(index, sec) == index < sec.sh_size

RECURSIVE ScanSection(_, _, _, _, _, _)
ScanSection(d, sec, required_size, index, seen_nulls, checkpoint) ==
    IF ~ScanMore(index, sec)
    THEN [ok |-> TRUE, index |-> index, seen_nulls |-> seen_nulls,
          checkpoint |-> checkpoint]
    ELSE IF sec.sh_offset + index >= Len(d)
    THEN [ok |-> FALSE, index |-> index, seen_nulls |-> seen_nulls,
          checkpoint |-> checkpoint]
    ELSE
      LET char == At(d, sec.sh_offset + index)
          sn == IF char = 0 THEN seen_nulls + 1 ELSE 0
          cp == IF char = 0 THEN checkpoint ELSE index + 1
      IN  IF sn = required_size
          THEN [ok |-> TRUE, index |-> index + 1, seen_nulls |-> sn,
                checkpoint |-> cp]
          ELSE ScanSection(d, sec, required_size, index + 1, sn, cp)

NoCave == [kind |-> "none", addr |-> 0, off |-> 0, sec |-> NullSec]

RECURSIVE CaveLoop(_, _, _)
CaveLoop(d, secs, required_size) ==
    IF secs = <<>> THEN NoCave
    ELSE IF IsNoBits(Head(secs).sh_type)
    THEN CaveLoop(d, Tail(secs), required_size)
    ELSE
      LET sec == Head(secs)
          s == ScanSection(d, sec, required_size, 0, 0, 0)
      IN  IF ~s.ok THEN [NoCave EXCEPT !.kind = "error"]
          ELSE IF s.seen_nulls < required_size
          THEN CaveLoop(d, Tail(secs), required_size)
          ELSE [kind |-> "found", addr |-> sec.sh_addr + s.checkpoint,
                off |-> sec.sh_offset + s.checkpoint, sec |-> sec]

\* kind "none" is the fall-through after logging.error (returns None)
find_cave(d, dict, required_size) == CaveLoop(d, IterOrder(dict), required_size)

\* ---------------------------------------------------------------- change_ep
change_ep(d, new_ep) == SliceAssign(d, EP_OFF, EP_OFF + 4, p32(new_ep))

\* ----------------------------------------------------------- write_unpacker
\* the stub inserted at the cave instead of written over it
write_unpacker_insert(d, asm, off, unpacker_off) ==
    SliceAssign(d, unpacker_off, unpacker_off, asm)

\* the body reads the module-level name unpacker_off, not its parameter off
write_unpacker(d, asm, off, unpacker_off) ==
    SliceAssign(d, unpacker_off, unpacker_off + Len(asm), asm)

\* ---------------------------------------------------------- create_unpacker
\* sh_addr & 0xFFFFF000 on a 32-bit value: clear the low 12 bits
PAGE_SIZE == 4096
PageMask(a) == a - (a % PAGE_SIZE)

\* the instruction text handed to asm(), one record per line
create_unpacker(dict, h) ==
    LET text_sec == get_section(dict, TEXT_NAME).sec
        text_addr == PageMask(text_sec.sh_addr)
        I(op, a, b) == [op |-> op, a |-> a, b |-> b]
    IN  << I("push", "eax", 0), I("push", "edi", 0), I("push", "esi", 0),
           I("push", "edx", 0), I("push", "ecx", 0),
           I("movi", "eax", 125), I("movi", "ebx", text_addr),
           I("movi", "ecx", text_sec.sh_size), I("movi", "edx", 7),
           I("int80", "", 0),
           I("movi", "edi", text_sec.sh_addr), I("movr", "esi", "edi"),
           I("movi", "ecx", text_sec.sh_size), I("cld", "", 0),
           I("lodsb", "", 0), I("xoral", "", PACK_KEY), I("stosb", "", 0),
           I("loop", "", 15),
           I("movi", "eax", 125), I("movi", "ebx", text_addr),
           I("movi", "ecx", text_sec.sh_size), I("movi", "edx", 5),
           I("int80", "", 0),
           I("pop", "ecx", 0), I("pop", "edx", 0), I("pop", "esi", 0),
           I("pop", "edi", 0), I("pop", "eax", 0),
           I("pushi", "", h.e_entry), I("ret", "", 0) >>

\* what asm() may hand back (the assembler is not part of the program): a
\* byte string that starts as the encoding of the stub's first instructions
\* does, cut to the model's stub lengths; or no result, when it raises
STUB_HEAD == <<80, 87, 86, 82, 81, 184, 125, 0, 0, 0>>
AsmOutputs == {SubSeq(STUB_HEAD, 1, n) : n \in 1 .. MaxStubLen}

\* ------------------------------------------------------------- input images
\* An ELF32 file: header, NumSecs content sections of SecLen bytes each,
\* the section-name string table, then the section header table: the null
\* entry, the content sections, and the string-table section in front of
\* the last content section.
STR_TAB == <<0>> \o TEXT_NAME \o <<0, 46, 100, 0, 46, 115, 0>>
SecKinds ==
    {[name |-> 1, type |-> SHT_PROGBITS], [name |-> 7, type |-> SHT_PROGBITS],
     [name |-> 7, type |-> SHT_NOBITS]}
StrNdx == NumSecs
ByteVals == {0, PACK_KEY}
AddrBase == 32768 * 4105
ContentOff == ELF32_EHDR_SZ
StrOff == ContentOff + NumSecs * SecLen
ShOff == StrOff + Len(STR_TAB)

LE16(v) == << v % 256, v \div 256 >>

\* the header fields an input may get wrong: the magic, an e_type that
\* ETYPE_DIC does not know, an e_shnum counting an entry the file lacks
GoodHdr == [magic |-> ELF_MAGIC, e_type |-> 2, e_shnum |-> NumSecs + 2]
BadHdrs ==
    {[GoodHdr EXCEPT !.magic = <<127, 69, 76, 71>>],
     [GoodHdr EXCEPT !.e_type = 5],
     [GoodHdr EXCEPT !.e_shnum = NumSecs + 3]}

EhdrBytes(h) ==
    h.magic \o <<1, 1, 1, 0, 0, 0, 0, 0, 0, 0, 0, 0>>
    \o LE16(h.e_type) \o LE16(3) \o p32(1) \o p32(AddrBase + ContentOff)
    \o p32(0) \o p32(ShOff) \o p32(0) \o LE16(ELF32_EHDR_SZ) \o LE16(0)
    \o LE16(0) \o LE16(SHDR_SZ) \o LE16(h.e_shnum) \o LE16(StrNdx)

ShdrBytes(name, type, addr, off, size) ==
    p32(name) \o p32(type) \o p32(0) \o p32(addr) \o p32(off) \o p32(size)
    \o p32(0) \o p32(0) \o p32(1) \o p32(0)

SecOff(i) == ContentOff + (i - 1) * SecLen

ShEntry(desc, t) ==
    LET sec(i) == ShdrBytes(desc[i].name, desc[i].type, AddrBase + SecOff(i),
                            SecOff(i), SecLen)
    IN  IF t = 0 THEN ShdrBytes(0, 0, 0, 0, 0)
        ELSE IF t = StrNdx
        THEN ShdrBytes(10, SHT_STRTAB, 0, StrOff, Len(STR_TAB))
        ELSE IF t < StrNdx THEN sec(t) ELSE sec(t - 1)

RECURSIVE ShEntries(_, _)
ShEntries(desc, t) ==
    IF t > NumSecs + 1 THEN <<>>
    ELSE ShEntry(desc, t) \o ShEntries(desc, t + 1)

ShTable(desc) == ShEntries(desc, 0)

Descs == [1 .. NumSecs -> SecKinds]
Contents == [1 .. NumSecs * SecLen -> ByteVals]
Image(h, desc, content) ==
    EhdrBytes(h) \o content \o STR_TAB \o ShTable(desc)

\* -------------------------------------------------------------------- state
VARIABLES
    elf_data,              \* the bytes read from the input file
    data,                  \* binary.data
    pc,                    \* position in __main__ (or in a called operation)
    hdr,                   \* the e_* attributes
    sections,              \* binary.sections
    string_table_offset,   \* binary.string_table_offset (-1: not set)
    unpacker_asm,          \* the stub bytes
    cave,                  \* (unpacker_addr, unpacker_off) as returned
    output,                \* the .packed file
    ret,                   \* the value returned by a called operation
    cpu                    \* the machine running the stub

vars == << elf_data, data, pc, hdr, sections, string_table_offset,
           unpacker_asm, cave, output, ret, cpu >>

NoOutput == [written |-> FALSE, bytes |-> <<>>]
NoRet ==
    [op |-> "", size |-> 0, key |-> 0, name |-> <<>>, raised |-> FALSE,
     none |-> TRUE, sec |-> NullSec]
Regs == {"eax", "ebx", "ecx", "edx", "esi", "edi"}
NoCpu ==
    [ip |-> 0, eax |-> 0, ebx |-> 0, ecx |-> 0, edx |-> 0, esi |-> 0,
     edi |-> 0, df |-> 0, stack |-> <<>>, mem |-> <<>>, calls |-> <<>>,
     entry |-> [r \in Regs |-> 0], target |-> 0]

\* ------------------------------------------------------------ the pipeline
Init ==
    /\ \/ \E desc \in Descs, content \in Contents :
             elf_data = Image(GoodHdr, desc, content)
       \/ \E h \in BadHdrs, desc \in Descs :
             elf_data = Image(h, desc, [k \in 1 .. NumSecs * SecLen |-> 0])
    /\ data = elf_data
    /\ pc = "check_magic"
    /\ hdr = NoHdr
    /\ sections = <<>>
    /\ string_table_offset = -1
    /\ unpacker_asm = <<>>
    /\ cave = NoCave
    /\ output = NoOutput
    /\ ret = NoRet
    /\ cpu = NoCpu

\* a failed step carrying on
GotoOn(ok, next) == next

\* where __main__ goes after a step: on, or out through the exception
Goto(ok, next) == IF ok THEN next ELSE "failed"

CheckMagic ==
    /\ pc = "check_magic"
    /\ pc' = Goto(Slice(elf_data, 0, 4) = ELF_MAGIC, "parse_header")
    /\ UNCHANGED << elf_data, data, hdr, sections, string_table_offset,
                    unpacker_asm, cave, output, ret, cpu >>

ParseHeader ==
    /\ pc = "parse_header"
    /\ hdr' = parse_header(data)
    /\ pc' = Goto(hdr'.ok, "parse_sections_header")
    /\ UNCHANGED << elf_data, data, sections, string_table_offset,
                    unpacker_asm, cave, output, ret, cpu >>

ParseSectionsHeader ==
    /\ pc = "parse_sections_header"
    /\ LET p == parse_sections_header(data, hdr)
       IN  /\ sections' = p.sections
           /\ string_table_offset' = p.sto
           /\ pc' = Goto(p.ok, "pack_code")
    /\ UNCHANGED << elf_data, data, hdr, unpacker_asm, cave, output, ret, cpu >>

PackCode ==
    /\ pc = "pack_code"
    /\ LET p == pack_code(data, sections, PACK_KEY)
       IN  /\ data' = p.data
           /\ pc' = Goto(p.ok, "create_unpacker")
    /\ UNCHANGED << elf_data, hdr, sections, string_table_offset,
                    unpacker_asm, cave, output, ret, cpu >>

CreateUnpacker ==
    /\ pc = "create_unpacker"
    /\ \/ \E bytes \in AsmOutputs :
             /\ unpacker_asm' = bytes
             /\ pc' = Goto(~get_section(sections, TEXT_NAME).none, "find_cave")
       \/ /\ unpacker_asm' = <<>>
          /\ pc' = "failed"
    /\ UNCHANGED << elf_data, data, hdr, sections, string_table_offset,
                    cave, output, ret, cpu >>

FindCave ==
    /\ pc = "find_cave"
    /\ cave' = find_cave(data, sections, Len(unpacker_asm))
    /\ pc' = Goto(cave'.kind = "found", "change_ep")
    /\ UNCHANGED << elf_data, data, hdr, sections, string_table_offset,
                    unpacker_asm, output, ret, cpu >>

ChangeEp ==
    /\ pc = "change_ep"
    /\ data' = change_ep(data, cave.addr)
    /\ pc' = "write_unpacker"
    /\ UNCHANGED << elf_data, hdr, sections, string_table_offset,
                    unpacker_asm, cave, output, ret, cpu >>

WriteUnpacker ==
    /\ pc = "write_unpacker"
    /\ data' = write_unpacker(data, unpacker_asm, cave.off, cave.off)
    /\ pc' = "save"
    /\ UNCHANGED << elf_data, hdr, sections, string_table_offset,
                    unpacker_asm, cave, output, ret, cpu >>

SaveOutput ==
    /\ pc = "save"
    /\ output' = [written |-> TRUE, bytes |-> data]
    /\ pc' = "exit"
    /\ UNCHANGED << elf_data, data, hdr, sections, string_table_offset,
                    unpacker_asm, cave, ret, cpu >>

Next ==
    \/ CheckMagic
    \/ ParseHeader
    \/ ParseSectionsHeader
    \/ PackCode
    \/ CreateUnpacker
    \/ FindCave
    \/ ChangeEp
    \/ WriteUnpacker
    \/ SaveOutput

Spec == Init /\ [][Next]_vars

\* ------------------------------------------- the operations, one at a time
\* A parsed image on which one operation is called: find_cave with some
\* required size, get_section with some name, or pack_code twice with one
\* key.
Keys == {0, PACK_KEY, 255}
LookupNames == {TEXT_NAME, <<46, 100>>, <<46, 120>>}

InitOps ==
    /\ \E desc \in Descs, content \in Contents :
          elf_data = Image(GoodHdr, desc, content)
    /\ data = elf_data
    /\ hdr = parse_header(elf_data)
    /\ sections = parse_sections_header(elf_data, hdr).sections
    /\ string_table_offset = parse_sections_header(elf_data, hdr).sto
    /\ pc = "ready"
    /\ unpacker_asm = <<>>
    /\ cave = NoCave
    /\ output = NoOutput
    /\ ret = NoRet
    /\ cpu = NoCpu

CallFindCave ==
    /\ pc = "ready"
    /\ \E required_size \in 1 .. MaxStubLen :
          /\ cave' = find_cave(data, sections, required_size)
          /\ ret' = [NoRet EXCEPT !.op = "find_cave", !.size = required_size,
                                  !.raised = (cave'.kind = "error"),
                                  !.none = (cave'.kind = "none")]
    /\ pc' = "returned"
    /\ UNCHANGED << elf_data, data, hdr, sections, string_table_offset,
                    unpacker_asm, output, cpu >>

\* get_section has no raise statement: it returns a Section or None
CallGetSection ==
    /\ pc = "ready"
    /\ \E name \in LookupNames :
          LET r == get_section(sections, name)
          IN  ret' = [NoRet EXCEPT !.op = "get_section", !.name = name,
                                   !.raised = FALSE, !.none = r.none,
                                   !.sec = r.sec]
    /\ pc' = "returned"
    /\ UNCHANGED << elf_data, data, hdr, sections, string_table_offset,
                    unpacker_asm, cave, output, cpu >>

CallPackCode ==
    /\ pc = "ready"
    /\ \E key \in Keys :
          LET p == pack_code(data, sections, key)
          IN  /\ data' = p.data
              /\ ret' = [NoRet EXCEPT !.op = "pack_code", !.key = key,
                                      !.raised = ~p.ok]
    /\ pc' = "packed_once"
    /\ UNCHANGED << elf_data, hdr, sections, string_table_offset,
                    unpacker_asm, cave, output, cpu >>

CallPackCodeAgain ==
    /\ pc = "packed_once"
    /\ LET p == pack_code(data, sections, ret.key)
       IN  /\ data' = p.data
           /\ ret' = [ret EXCEPT !.raised = ~p.ok]
    /\ pc' = "packed_twice"
    /\ UNCHANGED << elf_data, hdr, sections, string_table_offset,
                    unpacker_asm, cave, output, cpu >>

NextOps ==
    \/ CallFindCave
    \/ CallGetSection
    \/ CallPackCode
    \/ CallPackCodeAgain

SpecOps == InitOps /\ [][NextOps]_vars

\* ------------------------------------------------------- the stub, running
\* The instructions of create_unpacker executed on an i386 register machine
\* for a '.text' of MaxTextSize bytes at most.  cpu.ip is the index of the
\* next instruction, 0 once ret has transferred control to cpu.target;
\* cpu.entry keeps the registers the stub was entered with.
MaxTextSize == 2
RegVals == {0, 4660}
TextAddrs == {AddrBase, AddrBase + 2048, AddrBase + PAGE_SIZE - 1}

StubText(a, n) ==
    [NullSec EXCEPT !.name = TEXT_NAME, !.sh_type = SHT_PROGBITS,
                    !.sh_addr = a, !.sh_offset = ContentOff, !.sh_size = n]

InitStub ==
    /\ elf_data = <<>>
    /\ data = <<>>
    /\ pc = "stub"
    /\ \E a \in TextAddrs, n \in 1 .. MaxTextSize :
          /\ sections = << [key |-> SHT_PROGBITS, secs |-> <<StubText(a, n)>>] >>
          /\ \E regs \in [Regs -> RegVals], m \in [a .. a + n - 1 -> ByteVals] :
                cpu = [ip |-> 1, eax |-> regs["eax"], ebx |-> regs["ebx"],
                       ecx |-> regs["ecx"], edx |-> regs["edx"],
                       esi |-> regs["esi"], edi |-> regs["edi"], df |-> 0,
                       stack |-> <<>>, mem |-> m, calls |-> <<>>,
                       entry |-> regs, target |-> 0]
    /\ hdr = [NoHdr EXCEPT !.ok = TRUE, !.e_entry = AddrBase + ContentOff]
    /\ string_table_offset = StrOff
    /\ unpacker_asm = <<>>
    /\ cave = NoCave
    /\ output = NoOutput
    /\ ret = NoRet

Cur == create_unpacker(sections, hdr)[cpu.ip]
Fetch(op) == cpu.ip \in 1 .. Len(create_unpacker(sections, hdr)) /\ Cur.op = op
Rest == << elf_data, data, pc, hdr, sections, string_table_offset,
           unpacker_asm, cave, output, ret >>
Top(st) == st[Len(st)]
Pop1(st) == SubSeq(st, 1, Len(st) - 1)
Al(v) == v % 256
SetAl(v, b) == (v - (v % 256)) + b

Push ==
    /\ Fetch("push")
    /\ cpu' = [cpu EXCEPT !.stack = Append(@, cpu[Cur.a]), !.ip = @ + 1]
    /\ UNCHANGED Rest

PushImm ==
    /\ Fetch("pushi")
    /\ cpu' = [cpu EXCEPT !.stack = Append(@, Cur.b), !.ip = @ + 1]
    /\ UNCHANGED Rest

Pop ==
    /\ Fetch("pop")
    /\ cpu' = [cpu EXCEPT ![Cur.a] = Top(cpu.stack), !.stack = Pop1(@),
                          !.ip = @ + 1]
    /\ UNCHANGED Rest

MovImm ==
    /\ Fetch("movi")
    /\ cpu' = [cpu EXCEPT ![Cur.a] = Cur.b, !.ip = @ + 1]
    /\ UNCHANGED Rest

MovReg ==
    /\ Fetch("movr")
    /\ cpu' = [cpu EXCEPT ![Cur.a] = cpu[Cur.b], !.ip = @ + 1]
    /\ UNCHANGED Rest

\* int 0x80: the call eax(ebx, ecx, edx); its result comes back in eax
Int80 ==
    /\ Fetch("int80")
    /\ cpu' = [cpu EXCEPT !.calls = Append(@, [nr |-> cpu.eax, addr |-> cpu.ebx,
                                                len |-> cpu.ecx,
                                                prot |-> cpu.edx]),
                          !.eax = 0, !.ip = @ + 1]
    /\ UNCHANGED Rest

Cld ==
    /\ Fetch("cld")
    /\ cpu' = [cpu EXCEPT !.df = 0, !.ip = @ + 1]
    /\ UNCHANGED Rest

Lodsb ==
    /\ Fetch("lodsb")
    /\ cpu' = [cpu EXCEPT !.eax = SetAl(@, cpu.mem[cpu.esi]), !.esi = @ + 1,
                          !.ip = @ + 1]
    /\ UNCHANGED Rest

XorAl ==
    /\ Fetch("xoral")
    /\ cpu' = [cpu EXCEPT !.eax = SetAl(@, Xor8(Al(@), Cur.b)), !.ip = @ + 1]
    /\ UNCHANGED Rest

Stosb ==
    /\ Fetch("stosb")
    /\ cpu' = [cpu EXCEPT !.mem[cpu.edi] = Al(cpu.eax), !.edi = @ + 1,
                          !.ip = @ + 1]
    /\ UNCHANGED Rest

\* loop: ecx = ecx - 1, jump while ecx is not 0
Loop ==
    /\ Fetch("loop")
    /\ cpu' = [cpu EXCEPT !.ecx = @ - 1,
                          !.ip = IF cpu.ecx - 1 # 0 THEN Cur.b ELSE @ + 1]
    /\ UNCHANGED Rest

Ret ==
    /\ Fetch("ret")
    /\ cpu' = [cpu EXCEPT !.target = Top(cpu.stack), !.stack = Pop1(@),
                          !.ip = 0]
    /\ UNCHANGED Rest

NextStub ==
    \/ Push
    \/ PushImm
    \/ Pop
    \/ MovImm
    \/ MovReg
    \/ Int80
    \/ Cld
    \/ Lodsb
    \/ XorAl
    \/ Stosb
    \/ Loop
    \/ Ret

SpecStub == InitStub /\ [][NextStub]_vars

\* =================================================================== claims
\* The section table read straight from the input image, in table order
\* (index 0, the null entry, left out as the parser leaves it out).
TableIdx == 1 .. hdr.e_shnum - 1
TableAt(i) ==
    LET s == Section(SubSeq(elf_data, hdr.e_shoff + i * SHDR_SZ + 1,
                            hdr.e_shoff + (i + 1) * SHDR_SZ))
    IN  [s EXCEPT !.name = get_string(elf_data, string_table_offset,
                                      s.sh_name).str]

InRange(i, start, len) == start <= i /\ i < start + len

\* R zero bytes of d at offset o of the section, wholly inside [0, sh_size)
ZeroRunAt(d, sec, o, R) ==
    /\ o + R <= sec.sh_size
    /\ \A k \in 0 .. R - 1 :
          sec.sh_offset + o + k < Len(d) /\ At(d, sec.sh_offset + o + k) = 0
HasRun(d, sec, R) == \E o \in 0 .. sec.sh_size - R : ZeroRunAt(d, sec, o, R)
FirstRun(d, sec, R) ==
    CHOOSE o \in 0 .. sec.sh_size - R :
        ZeroRunAt(d, sec, o, R) /\ \A q \in 0 .. o - 1 : ~ZeroRunAt(d, sec, q, R)
Qualifying(R) == {i \in TableIdx : HasRun(data, TableAt(i), R)}

\* the order by type group: groups by the first table index of their type,
\* table order inside a group
FirstOfType(i) ==
    CHOOSE j \in TableIdx :
        /\ TableAt(j).sh_type = TableAt(i).sh_type
        /\ \A k \in 1 .. j - 1 : TableAt(k).sh_type # TableAt(i).sh_type
GroupBefore(i, j) ==
    \/ FirstOfType(i) < FirstOfType(j)
    \/ FirstOfType(i) = FirstOfType(j) /\ i <= j

TextSec == get_section(sections, TEXT_NAME).sec

\* C1: for an image with a program-data '.text' followed in the table by a
\* second program-data section holding at least len(stub) zero bytes, the
\* output of the pipeline has every '.text' byte equal to the input byte XOR
\* 0xA5, the entry-point field equal to the address find_cave returned, and
\* the stub bytes at the returned cave offset.
C1_Scenario ==
    \E i \in TableIdx :
        /\ TableAt(i).name = TEXT_NAME
        /\ TableAt(i).sh_type = SHT_PROGBITS
        /\ \A k \in TableIdx : TableAt(k).name = TEXT_NAME => k = i
        /\ \E j \in TableIdx :
              /\ j > i
              /\ TableAt(j).sh_type = SHT_PROGBITS
              /\ HasRun(elf_data, TableAt(j), Len(unpacker_asm))
C1_EndToEnd ==
    (output.written /\ C1_Scenario) =>
        /\ \A k \in 0 .. TextSec.sh_size - 1 :
              At(output.bytes, TextSec.sh_offset + k)
                 = Xor8(At(elf_data, TextSec.sh_offset + k), PACK_KEY)
        /\ Slice(output.bytes, EP_OFF, EP_OFF + 4) = p32(cave.addr)
        /\ Slice(output.bytes, cave.off, cave.off + Len(unpacker_asm))
              = unpacker_asm

\* C2: pack_code(K) called twice in a row leaves every byte of the buffer
\* as it was before the first call, and the buffer's length never changes.
C2_PackTwice ==
    /\ pc = "packed_once" => Len(data) = Len(elf_data)
    /\ pc = "packed_twice" => data = elf_data
C2_Witness ==
    /\ pc = "packed_twice"
    /\ ret.key = PACK_KEY
    /\ ~ret.raised
    /\ TextSec.sh_size > 0
    /\ \E k \in 0 .. TextSec.sh_size - 1 :
          At(elf_data, TextSec.sh_offset + k) = PACK_KEY

\* C3: the output has the input's length, and every byte outside the
\* '.text' file range, outside the entry-point field at offsets 24..27 and
\* outside [caveOffset, caveOffset + len(stub)) is the input's byte.
C3_Frame ==
    output.written =>
        /\ Len(output.bytes) = Len(elf_data)
        /\ \A i \in 0 .. Len(elf_data) - 1 :
              (/\ ~InRange(i, TextSec.sh_offset, TextSec.sh_size)
               /\ ~InRange(i, EP_OFF, 4)
               /\ ~InRange(i, cave.off, Len(unpacker_asm)))
              => At(output.bytes, i) = At(elf_data, i)
C3_Witness ==
    /\ output.written
    /\ TextSec.sh_size > 0
    /\ Len(unpacker_asm) = MaxStubLen
    /\ ~InRange(cave.off, TextSec.sh_offset, TextSec.sh_size)
    /\ \E i \in 0 .. Len(elf_data) - 1 : At(output.bytes, i) # At(elf_data, i)

\* C4: find_cave(R), R >= 1, returns (sh_addr + O, sh_offset + O) with O the
\* start of the first run of R zero bytes wholly inside the section's
\* [0, sh_size); a section without such a run is never selected, and a
\* file-backed section with one (at its very end too) gives a cave.
C4_CaveCorrect ==
    ret.op = "find_cave" =>
        /\ cave.kind = "found" =>
              /\ HasRun(data, cave.sec, ret.size)
              /\ cave.addr = cave.sec.sh_addr + FirstRun(data, cave.sec, ret.size)
              /\ cave.off = cave.sec.sh_offset + FirstRun(data, cave.sec, ret.size)
        /\ (\E i \in Qualifying(ret.size) : TableAt(i).sh_type # SHT_NOBITS)
              => cave.kind = "found"
C4_Witness ==
    /\ ret.op = "find_cave"
    /\ cave.kind = "found"
    /\ cave.sec.sh_type # SHT_NOBITS
    /\ cave.off > cave.sec.sh_offset
    /\ cave.off + ret.size = cave.sec.sh_offset + cave.sec.sh_size

\* C5: the location find_cave returns never lies in a section of type
\* no-file-bits (sh_type = 8).
C5_NoBitsExcluded ==
    (ret.op = "find_cave" /\ cave.kind = "found")
        => cave.sec.sh_type # SHT_NOBITS

C7_NoOutputOnFailure ==
    /\ pc = "failed" => ~output.written
    /\ output.written =>
          /\ pc = "exit"
          /\ Slice(elf_data, 0, 4) = ELF_MAGIC
          /\ hdr.ok
          /\ sections # <<>>
          /\ ~get_section(sections, TEXT_NAME).none
          /\ unpacker_asm # <<>>
          /\ cave.kind = "found"
          /\ (cave.off >= EP_OFF + 4 \/ cave.off + Len(unpacker_asm) <= EP_OFF)
                => Slice(output.bytes, EP_OFF, EP_OFF + 4) = p32(cave.addr)
          /\ Slice(output.bytes, cave.off, cave.off + Len(unpacker_asm))
                = unpacker_asm
C7_Witness ==
    /\ pc = "failed"
    /\ unpacker_asm # <<>>
    /\ cave.kind = "none"
    /\ data # elf_data

\* C8: get_section(name) returns the first descriptor with that name, and
\* fails with an error, returning no value, when no descriptor has it.
C8_SectionLookup ==
    ret.op = "get_section" =>
        IF \E i \in TableIdx : TableAt(i).name = ret.name
        THEN ~ret.raised /\ ~ret.none /\ ret.sec.name = ret.name
        ELSE ret.raised

\* C9: when the stub transfers control to the original entry point, eax,
\* ebx, ecx, edx, esi and edi hold the values they had on stub entry and
\* the stack holds nothing the stub pushed.
C9_RegistersPreserved ==
    (pc = "stub" /\ cpu.ip = 0) =>
        /\ \A r \in Regs : cpu[r] = cpu.entry[r]
        /\ cpu.stack = <<>>
        /\ cpu.target = hdr.e_entry

\* C10: each protection-change call of the stub starts at the '.text'
\* address rounded down to a 4096-byte page and, its length rounded up to
\* whole pages, covers every page holding a byte of [A, A + S).
PageOf(a) == a \div PAGE_SIZE
PagesCovered(addr, len) ==
    {p \in PageOf(addr) .. PageOf(addr) + ((len + PAGE_SIZE - 1) \div PAGE_SIZE) - 1 : TRUE}
C10_ProtectionRange ==
    pc = "stub" =>
        \A c \in 1 .. Len(cpu.calls) :
            /\ cpu.calls[c].addr = PAGE_SIZE * PageOf(TextSec.sh_addr)
            /\ \A a \in TextSec.sh_addr .. TextSec.sh_addr + TextSec.sh_size - 1 :
                  PageOf(a) \in PagesCovered(cpu.calls[c].addr, cpu.calls[c].len)

====
